---- MODULE Spec2Model ----
(***************************************************************************)
(* Verification model of the asteroids simulation in src/src/main.rs:      *)
(* Entity::handle_event, Entity::step, Entity::bounding_triangles,         *)
(* Entity::collides_with, Entity::collision and the game loop of main.     *)
(*                                                                         *)
(* Numbers.  The program computes in f64.  A value is modelled as an       *)
(* integer number of quanta and every arithmetic result is rounded to the  *)
(* nearest value with FloatBits significant bits, ties to even, as IEEE    *)
(* 754 does with 53 bits.  Lengths are scaled so that 1.0 is Px quanta,    *)
(* angles so that one radian is 2^(FloatBits+4) quanta.                    *)
(*                                                                         *)
(* Specifications.                                                         *)
(*   Spec      the game loop (input, step, collision scan, publish) from   *)
(*             the shipped roster, a short run with a rich set of inputs;  *)
(*   SpecLife  the same loop, a long run (past the bullet lifetime) with   *)
(*             inputs and hits confined to the first ticks;                *)
(*   SpecStep  one entity with a fully tracked body, driven by key events  *)
(*             and Entity::step, a few steps from many starting entities;  *)
(*   SpecTurn  the same calls on one ship, more steps, turning keys only;  *)
(*   SpecScan  the collision scan alone, started on every short list of    *)
(*             entities of the kinds the program makes;                    *)
(*   SpecScanLive  SpecScan with weak fairness of the steps of the loops,  *)
(*             which have no wait in them;                                 *)
(*   SpecColl  Entity::collides_with and Entity::collision applied to      *)
(*             pairs of entities drawn from a bounded set;                 *)
(*   SpecBoxes the fast-negative check of Entity::collision applied to     *)
(*             pairs of triangles of a small grid;                         *)
(*   SpecMake  asteroid_verts and new_asteroid called with any argument;   *)
(*   SpecKeys  Entity::handle_event alone, on players with every           *)
(*             assignment of the four bindings and on the other kinds,     *)
(*             with a history of the keys held.                            *)
(* In Spec and SpecLife positions, velocities and the rng-drawn vertex     *)
(* lists are not tracked (NoVec): the result of Entity::collision is then  *)
(* an input of the scan.                                                   *)
(***************************************************************************)
EXTENDS Integers, Sequences, FiniteSets, TLC

----------------------------------------------------------------------------
(* Bounds of the model *)

\* significant bits of a float (53 in f64)
FloatBits == 14
\* denominator of the fixed-point sine and cosine
TrigScale == 1000

(* Program constants *)

FPS == 60
BulletTtl == 120
DebrisTtl == 30
BulletOffset == 20
BulletSpeed == 4
DebrisSpeed == 4
MaxAsteroidSize == 3

----------------------------------------------------------------------------
(* f64 arithmetic *)

RECURSIVE Pow2(_)
Pow2(n) == IF n = 0 THEN 1 ELSE 2 * Pow2(n - 1)

Abs(x) == IF x < 0 THEN -x ELSE x

Sgn(x) == IF x < 0 THEN -1 ELSE 1

Min2(a, b) == IF a < b THEN a ELSE b

Max2(a, b) == IF a > b THEN a ELSE b

\* the spacing of the floats around a / den: the least power of two s with
\* a / den < 2^FloatBits * s
RECURSIVE UlpOf(_, _, _)
UlpOf(a, den, s) ==
    IF a < Pow2(FloatBits) * s * den THEN s ELSE UlpOf(a, den, 2 * s)

\* a / d rounded to the nearest integer, ties to even
Nearest(a, d) ==
    IF 2 * (a % d) > d \/ (2 * (a % d) = d /\ (a \div d) % 2 = 1)
    THEN (a \div d) + 1
    ELSE a \div d

\* num / den rounded to the nearest multiple of the spacing s
RoundTo(num, den, s) == Sgn(num) * Nearest(Abs(num), s * den) * s

\* num / den rounded to the nearest float, ties to even
RoundQ(num, den) == RoundTo(num, den, UlpOf(Abs(num), den, 1))

FAdd(a, b) == RoundQ(a + b, 1)

FSub(a, b) == RoundQ(a - b, 1)

\* f64 `%`: exact, sign of the dividend
FRem(x, m) == Sgn(x) * (Abs(x) % Abs(m))

rem_euclid_exact(x, rhs) ==
    IF FRem(x, rhs) < 0 THEN FRem(x, rhs) + Abs(rhs) ELSE FRem(x, rhs)

\* f64::rem_euclid: r = x % rhs; if r < 0.0 { r + rhs.abs() } else { r }
rem_euclid(x, rhs) ==
    IF FRem(x, rhs) < 0 THEN FAdd(FRem(x, rhs), Abs(rhs)) ELSE FRem(x, rhs)

\* 1.0 as a length
Px == Pow2(FloatBits - 9)

\* std::f64::consts::TAU (2 pi = 710/113 to 7 digits) and FRAC_PI_2
TAU == RoundQ(710 * Pow2(FloatBits + 4), 113)

FRAC_PI_2 == RoundQ(TAU, 4)

\* TAU / (FPS * 3) as f64
TurnRate == RoundQ(TAU, FPS * 3)

\* 0.1 as a length
Thrust == RoundQ(Px, 10)

----------------------------------------------------------------------------
(* Vectors (DVec2) and the rotation matrix (DMat2) *)

\* a vector that is not tracked
NoVec == << >>

VAdd(a, b) ==
    IF a = NoVec \/ b = NoVec THEN NoVec
    ELSE << FAdd(a[1], b[1]), FAdd(a[2], b[2]) >>

VNeg(a) == IF a = NoVec THEN NoVec ELSE << -a[1], -a[2] >>

VScale(a, num, den) ==
    IF a = NoVec THEN NoVec
    ELSE << RoundQ(a[1] * num, den), RoundQ(a[2] * num, den) >>

\* Bhaskara's rational approximation of the sine (error < 0.002), for
\* p = x * (90 - x)
Bhaskara(p) ==
    (16 * p * TrigScale + (40500 - 4 * p) \div 2) \div (40500 - 4 * p)

\* the sine of x, where x counts 1/180 of a turn and 0 <= x <= 90 is the
\* first half turn
SinHalf(x) == Bhaskara(x * (90 - x))

\* theta as a count of 1/180 turns, 0..179
TurnUnits(theta) ==
    ((2 * 180 * rem_euclid_exact(theta, TAU) + TAU) \div (2 * TAU)) % 180

\* the sine of u, 0 <= u < 180, in 1/180 of a turn
SinU(u) == IF u <= 90 THEN SinHalf(u) ELSE -SinHalf(u - 90)

SinT(theta) == SinU(TurnUnits(theta))

CosT(theta) == SinU((TurnUnits(theta) + 45) % 180)

\* x_axis = (cos, -sin), y_axis = (sin, cos)
rotation_matrix(theta) == [c |-> CosT(theta), s |-> SinT(theta)]

\* DMat2 * DVec2 = x_axis * v.x + y_axis * v.y
MatVec(m, v) ==
    IF v = NoVec THEN NoVec
    ELSE << RoundQ(m.c * v[1] + m.s * v[2], TrigScale),
            RoundQ(m.c * v[2] - m.s * v[1], TrigScale) >>

----------------------------------------------------------------------------
(* Keys and events (sdl2::event::Event, sdl2::keyboard::Keycode) *)

\* Option::None for a binding or an event's keycode
NoKey == "None"

Keycodes == {"Up", "Right", "Left", "Space", "W", "D", "A", "LCtrl", "Escape", "X"}

KeyDown(k, rep) == [type |-> "KeyDown", keycode |-> k, repeat |-> rep]

KeyUp(k) == [type |-> "KeyUp", keycode |-> k, repeat |-> FALSE]

Quit == [type |-> "Quit", keycode |-> NoKey, repeat |-> FALSE]

----------------------------------------------------------------------------
(* Shapes *)

\* a length given in whole units
L(n) == n * Px

\* Verts is Either<&'static [DVec2], Arc<[DVec2]>>: [left |-> name of the
\* static list] or [right |-> the list]; a list drawn from the rng that is
\* not tracked is NoVec
ShipVerts == << <<L(0), L(-20)>>, <<L(10), L(10)>>, <<L(0), L(0)>>, <<L(-10), L(10)>> >>

BulletVerts == << <<L(1), L(3)>>, <<L(1), L(-3)>>, <<L(-1), L(-3)>>, <<L(-1), L(3)>> >>

BulletTriangles ==
    << << <<L(1), L(3)>>,  <<L(1), L(-3)>>,  <<L(-1), L(-3)>> >>,
       << <<L(1), L(-3)>>, <<L(-1), L(-3)>>, <<L(-1), L(3)>> >> >>

SHIP_VERTS == [left |-> "SHIP_VERTS"]

BULLET_VERTS == [left |-> "BULLET_VERTS"]

BULLET_BOUNDS == [tag |-> "Triangles", triangles |-> [left |-> "BULLET_BOUNDS"]]

\* the list behind a Verts or Triangles value
Deref(v) ==
    IF "right" \in DOMAIN v THEN v.right
    ELSE IF v.left = "SHIP_VERTS" THEN ShipVerts
    ELSE IF v.left = "BULLET_VERTS" THEN BulletVerts
    ELSE BulletTriangles

\* Option::None for sprite_verts and bounding
NoShape == [tag |-> "None"]

CyclicTriangles(verts) == [tag |-> "CyclicTriangles", verts |-> verts]

Polygon(verts) == [tag |-> "Polygon", verts |-> verts]

\* the value of a call that panics
Panic == [panic |-> TRUE]

\* asteroid_verts; rng is the list of distances drawn by gen_range, one for
\* each vertex, or NoVec when the draws are not tracked
theta_increment(vert_count) == RoundQ(TAU, vert_count)

\* asteroid_verts without its assert!
asteroid_verts_unasserted(vert_count, min_distance, max_distance, rng) ==
    IF rng = NoVec THEN [right |-> NoVec]
    ELSE [right |-> [idx \in 1..vert_count |->
             MatVec(rotation_matrix(RoundQ(theta_increment(vert_count) * (idx - 1), 1)),
                    << 0, rng[idx] >>)]]

asteroid_verts(vert_count, min_distance, max_distance, rng) ==
    IF ~(vert_count >= 3) THEN Panic
    ELSE IF rng = NoVec THEN [right |-> NoVec]
    ELSE [right |-> [idx \in 1..vert_count |->
             MatVec(rotation_matrix(RoundQ(theta_increment(vert_count) * (idx - 1), 1)),
                    << 0, rng[idx] >>)]]

----------------------------------------------------------------------------
(* Entities.  id and born (the tick of creation) are history fields set by *)
(* the game loop; the program's Entity has neither.                        *)

BodyOf(position, velocity, rotation, has_drag) ==
    [position |-> position, velocity |-> velocity, rotation |-> rotation,
     has_drag |-> has_drag, accelerating |-> FALSE,
     turning_left |-> FALSE, turning_right |-> FALSE]

Asteroid(size) == [tag |-> "Asteroid", size |-> size]

Bullet(ttl) == [tag |-> "Bullet", ttl |-> ttl]

Debris(ttl) == [tag |-> "Debris", ttl |-> ttl]

Player(fire, accelerate, turn_left, turn_right) ==
    [tag |-> "Player", fire |-> fire, accelerate |-> accelerate,
     turn_left |-> turn_left, turn_right |-> turn_right]

EntityOf(body, wrap, sprite_verts, bounding, kind) ==
    [id |-> 0, born |-> 0, body |-> body, wrap |-> wrap,
     sprite_verts |-> sprite_verts, bounding |-> bounding, kind |-> kind]

\* the Entity literal of new_debris and new_asteroid, or the panic of the
\* call that was to make verts
Rock(body, verts, kind) ==
    IF verts = Panic THEN Panic
    ELSE EntityOf(body, "Yes", Polygon(verts), CyclicTriangles(verts), kind)

new_debris(body, rng) ==
    Rock(body, asteroid_verts(9, L(2), L(5), rng), Debris(DebrisTtl))

\* the match on size of new_asteroid
SizedVerts(size, rng) ==
    CASE size = 0 -> Panic
      [] size = 1 -> asteroid_verts(6, L(20), L(28), rng)
      [] size = 2 -> asteroid_verts(8, L(30), L(40), rng)
      [] size = 3 -> asteroid_verts(14, L(39), L(50), rng)
      [] OTHER    -> Panic

new_asteroid(size, body, rng) ==
    Rock(body, SizedVerts(size, rng), Asteroid(size))

----------------------------------------------------------------------------
(* Entity::handle_event: the entity after the event and the entities it    *)
(* spawned                                                                 *)

\* BulletAlong with the flags of the body taken from the ship that fires
bullet_with_ship_flags(self, fire_direction) ==
    EntityOf(
        [self.body EXCEPT
            !.position = VAdd(self.body.position,
                              VScale(fire_direction, BulletOffset, 1)),
            !.velocity = VAdd(VScale(fire_direction, BulletSpeed, 1),
                              self.body.velocity)],
        "Yes", Polygon(BULLET_VERTS), BULLET_BOUNDS, Bullet(BulletTtl))

\* the Entity literal of lines 191-207
BulletAlong(self, fire_direction) ==
    EntityOf(
        [position      |-> VAdd(self.body.position,
                                VScale(fire_direction, BulletOffset, 1)),
         velocity      |-> VAdd(VScale(fire_direction, BulletSpeed, 1),
                                self.body.velocity),
         rotation      |-> self.body.rotation,
         has_drag      |-> FALSE,
         accelerating  |-> FALSE,
         turning_left  |-> FALSE,
         turning_right |-> FALSE],
        "Yes", Polygon(BULLET_VERTS), BULLET_BOUNDS, Bullet(BulletTtl))

BulletFiredBy(self) ==
    BulletAlong(self, MatVec(rotation_matrix(self.body.rotation), << 0, -L(1) >>))

\* an arm that returns None and leaves the entity as it is
Ignored(self) == [entity |-> self, new_entities |-> << >>]

\* an arm that assigns a flag of the body and returns None
Flag(self, f, v) ==
    [entity |-> [self EXCEPT !.body[f] = v], new_entities |-> << >>]

\* handle_event without the repeat: false of the KeyDown pattern
handle_event_on_repeat(self, event) ==
    IF self.kind.tag # "Player" THEN Ignored(self)
    ELSE IF event.type = "KeyDown" /\ event.keycode # NoKey
    THEN IF event.keycode = self.kind.accelerate
         THEN Flag(self, "accelerating", TRUE)
         ELSE IF event.keycode = self.kind.turn_left
         THEN Flag(self, "turning_left", TRUE)
         ELSE IF event.keycode = self.kind.turn_right
         THEN Flag(self, "turning_right", TRUE)
         ELSE IF event.keycode = self.kind.fire
         THEN [entity |-> self, new_entities |-> << BulletFiredBy(self) >>]
         ELSE Ignored(self)
    ELSE IF event.type = "KeyUp" /\ event.keycode # NoKey
    THEN IF event.keycode = self.kind.accelerate
         THEN Flag(self, "accelerating", FALSE)
         ELSE IF event.keycode = self.kind.turn_left
         THEN Flag(self, "turning_left", FALSE)
         ELSE IF event.keycode = self.kind.turn_right
         THEN Flag(self, "turning_right", FALSE)
         ELSE Ignored(self)
    ELSE Ignored(self)

\* handle_event with arms for the other kinds that follow the key too
handle_event_any_kind(self, event) ==
    IF self.kind.tag # "Player"
    THEN Flag(self, "accelerating", event.type = "KeyDown")
    ELSE IF event.type = "KeyDown" /\ event.keycode # NoKey /\ ~event.repeat
    THEN IF event.keycode = self.kind.accelerate
         THEN Flag(self, "accelerating", TRUE)
         ELSE IF event.keycode = self.kind.turn_left
         THEN Flag(self, "turning_left", TRUE)
         ELSE IF event.keycode = self.kind.turn_right
         THEN Flag(self, "turning_right", TRUE)
         ELSE IF event.keycode = self.kind.fire
         THEN [entity |-> self, new_entities |-> << BulletFiredBy(self) >>]
         ELSE Ignored(self)
    ELSE IF event.type = "KeyUp" /\ event.keycode # NoKey
    THEN IF event.keycode = self.kind.accelerate
         THEN Flag(self, "accelerating", FALSE)
         ELSE IF event.keycode = self.kind.turn_left
         THEN Flag(self, "turning_left", FALSE)
         ELSE IF event.keycode = self.kind.turn_right
         THEN Flag(self, "turning_right", FALSE)
         ELSE Ignored(self)
    ELSE Ignored(self)

handle_event(self, event) ==
    IF self.kind.tag # "Player" THEN Ignored(self)
    ELSE IF event.type = "KeyDown" /\ event.keycode # NoKey /\ ~event.repeat
    THEN IF event.keycode = self.kind.accelerate
         THEN Flag(self, "accelerating", TRUE)
         ELSE IF event.keycode = self.kind.turn_left
         THEN Flag(self, "turning_left", TRUE)
         ELSE IF event.keycode = self.kind.turn_right
         THEN Flag(self, "turning_right", TRUE)
         ELSE IF event.keycode = self.kind.fire
         THEN [entity |-> self, new_entities |-> << BulletFiredBy(self) >>]
         ELSE Ignored(self)
    ELSE IF event.type = "KeyUp" /\ event.keycode # NoKey
    THEN IF event.keycode = self.kind.accelerate
         THEN Flag(self, "accelerating", FALSE)
         ELSE IF event.keycode = self.kind.turn_left
         THEN Flag(self, "turning_left", FALSE)
         ELSE IF event.keycode = self.kind.turn_right
         THEN Flag(self, "turning_right", FALSE)
         ELSE Ignored(self)
    ELSE Ignored(self)

----------------------------------------------------------------------------
(* Entity::bounding_triangles: the world-space triangles of the hull *)

\* origin + rota * p
Placed(self, p) ==
    VAdd(self.body.position, MatVec(rotation_matrix(self.body.rotation), p))

\* [origin, origin + rota * p1, origin + rota * p2] for the pairs (p1, p2) of
\* verts.iter().cycle().tuple_windows().take(verts.len())
CyclicFan(self, verts) ==
    [t \in 1..Len(verts) |->
        << self.body.position, Placed(self, verts[t]),
           Placed(self, verts[(t % Len(verts)) + 1]) >>]

PlacedTriangles(self, triangles) ==
    [t \in 1..Len(triangles) |->
        << Placed(self, triangles[t][1]), Placed(self, triangles[t][2]),
           Placed(self, triangles[t][3]) >>]

bounding_triangles(self) ==
    IF self.bounding.tag = "None" THEN << >>
    ELSE IF self.bounding.tag = "CyclicTriangles"
    THEN CyclicFan(self, Deref(self.bounding.verts))
    ELSE PlacedTriangles(self, Deref(self.bounding.triangles))

\* the points of a list of triangles (Iterator::flatten)
RECURSIVE Flatten(_)
Flatten(tris) ==
    IF tris = << >> THEN << >> ELSE Head(tris) \o Flatten(Tail(tris))

\* the fold of lines 268-283 and 356-371: (min x, max x, min y, max y);
\* the fold over no point leaves (inf, -inf, inf, -inf)
Least(S) == CHOOSE v \in S : \A w \in S : v <= w

Greatest(S) == CHOOSE v \in S : \A w \in S : v >= w

Coordinates(points, k) == {points[t][k] : t \in DOMAIN points}

Extent(points) ==
    [min_x |-> Least(Coordinates(points, 1)),
     max_x |-> Greatest(Coordinates(points, 1)),
     min_y |-> Least(Coordinates(points, 2)),
     max_y |-> Greatest(Coordinates(points, 2))]

----------------------------------------------------------------------------
(* Entity::step: the entity after the step and the StepResult *)

Accelerate(body) ==
    IF body.accelerating
    THEN [body EXCEPT !.velocity =
             VAdd(@, MatVec(rotation_matrix(body.rotation), << 0, -Thrust >>))]
    ELSE body

Turn(body) ==
    IF ~body.turning_left /\ body.turning_right
    THEN [body EXCEPT !.rotation = rem_euclid(FSub(@, TurnRate), TAU)]
    ELSE IF body.turning_left /\ ~body.turning_right
    THEN [body EXCEPT !.rotation = rem_euclid(FAdd(@, TurnRate), TAU)]
    ELSE body

Drag(body) ==
    IF body.has_drag THEN [body EXCEPT !.velocity = VScale(@, 99, 100)]
    ELSE body

Move(body) == [body EXCEPT !.position = VAdd(@, body.velocity)]

\* the test of lines 284-287 with < and > for <= and >=
inside_strictly(ext, bounds) ==
    /\ ext.min_x > 0
    /\ ext.min_y > 0
    /\ ext.max_x < bounds[1]
    /\ ext.max_y < bounds[2]

\* the test of lines 284-287
Inside(ext, bounds) ==
    /\ ext.min_x >= 0
    /\ ext.min_y >= 0
    /\ ext.max_x <= bounds[1]
    /\ ext.max_y <= bounds[2]

\* WrapPosition with an arm that puts a wrapping entity back on probation
WrapPositionReverting(self, bounds) ==
    IF self.body.position = NoVec \/ self.wrap = "No" THEN self
    ELSE IF self.wrap = "Yes"
    THEN [self EXCEPT !.body.position =
             << rem_euclid(@[1], bounds[1]), rem_euclid(@[2], bounds[2]) >>,
                      !.wrap = IF self.body.position[1] < 0
                               THEN "OnceOnScreen" ELSE @]
    ELSE self

\* the match on self.wrap, lines 256-292; a position that is not tracked
\* stays so (the game loop builds entities with wrap = Yes only)
WrapPosition(self, bounds) ==
    IF self.body.position = NoVec THEN self
    ELSE IF self.wrap = "No" THEN self
    ELSE IF self.wrap = "Yes"
    THEN [self EXCEPT !.body.position =
             << rem_euclid(@[1], bounds[1]), rem_euclid(@[2], bounds[2]) >>]
    ELSE IF Inside(Extent(Flatten(bounding_triangles(self))
                          \o << self.body.position >>), bounds)
    THEN [self EXCEPT !.wrap = "Yes"]
    ELSE self

\* Countdown that removes the entity when ttl reaches 0 instead of below it
CountdownEarly(self) ==
    IF self.kind.tag \in {"Bullet", "Debris"}
    THEN IF self.kind.ttl >= 2
         THEN [entity |-> [self EXCEPT !.kind.ttl = @ - 1], result |-> "None"]
         ELSE [entity |-> self, result |-> "RemoveEntity"]
    ELSE [entity |-> self, result |-> "None"]

\* the match on self.kind, lines 293-301
Countdown(self) ==
    IF self.kind.tag \in {"Bullet", "Debris"}
    THEN IF self.kind.ttl >= 1
         THEN [entity |-> [self EXCEPT !.kind.ttl = @ - 1], result |-> "None"]
         ELSE [entity |-> self, result |-> "RemoveEntity"]
    ELSE [entity |-> self, result |-> "None"]

\* step that turns before it accelerates
step_turn_first(self, bounds) ==
    Countdown(WrapPosition([self EXCEPT !.body = Move(Drag(Accelerate(Turn(@))))],
                           bounds))

step(self, bounds) ==
    Countdown(WrapPosition([self EXCEPT !.body = Move(Drag(Turn(Accelerate(@))))],
                           bounds))

----------------------------------------------------------------------------
(* Entity::collides_with and Entity::collision *)

\* collides_with without the arm for an asteroid meeting a player
collides_with_one_way(self, other) ==
    LET a == self.kind.tag
        b == other.kind.tag
    IN  CASE a = "Debris" \/ b = "Debris"        -> FALSE
          [] a = "Asteroid" /\ b = "Asteroid"    -> FALSE
          [] a = "Bullet"   /\ b = "Bullet"      -> FALSE
          [] a = "Asteroid" /\ b = "Player"      -> FALSE
          [] OTHER                               -> TRUE

\* the arms of the match on (self.kind, other.kind), in order
KindsCollide(a, b) ==
    CASE a = "Debris" \/ b = "Debris"        -> FALSE
      [] a = "Asteroid" /\ b = "Asteroid"    -> FALSE
      [] a = "Bullet"   /\ b = "Bullet"      -> FALSE
      [] a = "Bullet"   /\ b = "Asteroid"    -> TRUE
      [] a = "Asteroid" /\ b = "Bullet"      -> TRUE
      [] a = "Asteroid" /\ b = "Player"      -> TRUE
      [] a = "Bullet"   /\ b = "Player"      -> TRUE
      [] a = "Player"   /\ b = "Asteroid"    -> TRUE
      [] a = "Player"   /\ b = "Bullet"      -> TRUE
      [] a = "Player"   /\ b = "Player"      -> TRUE

collides_with(self, other) == KindsCollide(self.kind.tag, other.kind.tag)

\* the fast-negative check with <= and >= for < and >
apart_or_touching(s, o) ==
    \/ s.max_x <= o.min_x
    \/ s.min_x >= o.max_x
    \/ s.max_y <= o.min_y
    \/ s.min_y >= o.max_y

\* the fast-negative check of lines 392-398: TRUE when the pair is skipped
Apart(s, o) ==
    \/ s.max_x < o.min_x
    \/ s.min_x > o.max_x
    \/ s.max_y < o.min_y
    \/ s.min_y > o.max_y

BoxesApart(self_triangle, other_triangle) ==
    Apart(Extent(self_triangle), Extent(other_triangle))

\* returns true at the first pair of triangles the check does not skip
SomeBoxesMeet(self_triangles, other_triangles) ==
    \E a \in DOMAIN self_triangles : \E b \in DOMAIN other_triangles :
        ~BoxesApart(self_triangles[a], other_triangles[b])

collision(self, other) ==
    SomeBoxesMeet(bounding_triangles(self), bounding_triangles(other))

----------------------------------------------------------------------------
(* Vec::swap_remove and the split_asteroid! macro *)

\* Vec::swap_remove(index), index from 0: the element and the rest, the last
\* element moved into the hole; panics when index >= len
swap_remove(v, index) ==
    IF index >= Len(v) THEN Panic
    ELSE [elem |-> v[index + 1],
          rest |-> IF index + 1 = Len(v) THEN SubSeq(v, 1, Len(v) - 1)
                   ELSE [SubSeq(v, 1, Len(v) - 1) EXCEPT ![index + 1] = v[Len(v)]]]

\* split_asteroid with the debris loop running once more (0..=size*4-2)
split_asteroid_inclusive(asteroid, bullet, dirs) ==
    LET size == asteroid.kind.size
        child == [new_asteroid(size - 1, asteroid.body, NoVec) EXCEPT
                      !.body.velocity = NoVec, !.body.position = NoVec]
        children == IF size > 1 THEN << child, child >> ELSE << >>
    IN  children \o [t \in 1..(size * 4 - 1) |->
                        new_debris([asteroid.body EXCEPT !.velocity = NoVec], NoVec)]

\* split_asteroid with the test size > 1 written size >= 1
split_asteroid_to_zero(asteroid, bullet, dirs) ==
    LET size == asteroid.kind.size
        made_child == new_asteroid(size - 1, asteroid.body, NoVec)
        children == IF size >= 1 THEN << made_child, made_child >> ELSE << >>
    IN  IF made_child = Panic THEN Panic
        ELSE children \o [t \in 1..(size * 4 - 2) |->
                             new_debris([asteroid.body EXCEPT !.velocity = NoVec],
                                        NoVec)]

\* split_asteroid without the debris loop
split_asteroid_no_debris(asteroid, bullet, dirs) ==
    LET size == asteroid.kind.size
        child == [new_asteroid(size - 1, asteroid.body, NoVec) EXCEPT
                      !.body.velocity = NoVec, !.body.position = NoVec]
    IN  IF size > 1 THEN << child, child >> ELSE << >>

\* split_asteroid that puts the bullet back behind what it appends
split_asteroid_keeps_bullet(asteroid, bullet, dirs) ==
    LET size == asteroid.kind.size
        child == [new_asteroid(size - 1, asteroid.body, NoVec) EXCEPT
                      !.body.velocity = NoVec, !.body.position = NoVec]
        children == IF size > 1 THEN << child, child >> ELSE << >>
    IN  children \o [t \in 1..(size * 4 - 2) |->
                        new_debris([asteroid.body EXCEPT !.velocity = NoVec], NoVec)]
                 \o << bullet >>

\* the entities the macro appends, in order, or Panic; dirs are the debris
\* directions drawn by gen_range(0.0..=TAU)
\* left of lines 596-600
SplitLeft(bullet) ==
    MatVec(rotation_matrix(FAdd(bullet.body.rotation, FRAC_PI_2)), << 0, L(1) >>)

\* lines 602-605 on the asteroid new_asteroid returned
Pushed(made_asteroid, d) ==
    IF made_asteroid = Panic THEN Panic
    ELSE [made_asteroid EXCEPT !.body.velocity = VAdd(@, d),
                               !.body.position = VAdd(@, d)]

\* Children with a third child of the same size
children_thrice(asteroid, left) ==
    IF asteroid.kind.size > 1
    THEN << Pushed(new_asteroid(asteroid.kind.size - 1, asteroid.body, NoVec),
                   left),
            Pushed(new_asteroid(asteroid.kind.size - 1, asteroid.body, NoVec),
                   VNeg(left)),
            new_asteroid(asteroid.kind.size - 1, asteroid.body, NoVec) >>
    ELSE << >>

\* lines 594-607
Children(asteroid, left) ==
    IF asteroid.kind.size > 1
    THEN << Pushed(new_asteroid(asteroid.kind.size - 1, asteroid.body, NoVec),
                   left),
            Pushed(new_asteroid(asteroid.kind.size - 1, asteroid.body, NoVec),
                   VNeg(left)) >>
    ELSE << >>

\* lines 610-616
DebrisAlong(asteroid, debris_direction) ==
    new_debris([asteroid.body EXCEPT !.velocity =
                   VAdd(@, MatVec(rotation_matrix(debris_direction),
                                  << 0, L(DebrisSpeed) >>))], NoVec)

WithDebris(asteroid, children, dirs) ==
    IF asteroid.kind.size * 4 - 2 < 0 THEN Panic
    ELSE IF \E t \in DOMAIN children : children[t] = Panic THEN Panic
    ELSE children \o [t \in 1..(asteroid.kind.size * 4 - 2) |->
                         DebrisAlong(asteroid, dirs[t])]

split_asteroid(asteroid, bullet, dirs) ==
    WithDebris(asteroid, Children(asteroid, SplitLeft(bullet)), dirs)

----------------------------------------------------------------------------
(* The game loop of main *)

VARIABLES
    entities,   \* the Vec<Entity>
    pc,         \* "input", "step", "scan", "publish", "done", "panic"; "unit", "removed"
    tick,       \* iterations of 'running completed
    i, j,       \* the indices of the collision scan, from 0
    polled,     \* events taken from poll_iter in the run
    nextId,     \* history: the next entity id
    made,       \* history: id -> [tag, born] of every entity created in the run
    expired,    \* history: id -> the tick whose step returned RemoveEntity
    hits,       \* history: ids removed by a Bullet x Asteroid resolution
    startIds,   \* history: ids in the collection when the scan began
    compared,   \* history: the pairs {id, id} the scan has tested
    twice,      \* history: the pairs the scan has tested more than once
    limits,     \* the bounds of the run
    ent,        \* SpecStep, SpecColl: the entity; SpecBoxes: self_triangle
    other,      \* SpecColl: the second entity; SpecBoxes: other_triangle
    out,        \* SpecStep, SpecColl: what the last call returned
    calls,      \* SpecStep, SpecColl: calls made
    held        \* history, SpecKeys: the keys whose latest press or release
                \* was a press

worldVars == << entities, pc, tick, i, j, polled, nextId, made, expired, hits,
                startIds, compared, twice, limits >>

unitVars == << ent, other, out, calls, held >>

vars == << entities, pc, tick, i, j, polled, nextId, made, expired, hits,
           startIds, compared, twice, limits, ent, other, out, calls, held >>

\* iterations of 'running in Spec
MaxTick == 1
\* events poll_iter delivers in a run
MaxEvents == 2
\* SpecLife: the iterations in which events arrive and bullets hit
LifeWindow == 1

LifeMaxTick == BulletTtl + LifeWindow + 2

WorldEvents ==
    { KeyDown("Space", FALSE), KeyDown("LCtrl", FALSE), KeyDown("Space", TRUE),
      KeyDown("Left", FALSE), KeyUp("Left"), KeyDown("Right", FALSE),
      KeyDown("W", FALSE), KeyDown("Escape", FALSE), Quit }

LifeEvents == { KeyDown("Space", FALSE), KeyDown("LCtrl", FALSE) }

\* Spec: any MaxEvents events, and hits, in every iteration
ShortRun ==
    [max_tick |-> MaxTick, window |-> MaxTick + 1, events |-> WorldEvents,
     max_events |-> MaxEvents, once |-> FALSE]

\* SpecLife: each fire key is pressed at most once; events and hits in the
\* first LifeWindow iterations
LongRun ==
    [max_tick |-> LifeMaxTick, window |-> LifeWindow, events |-> LifeEvents,
     max_events |-> Cardinality(LifeEvents), once |-> TRUE]

\* canvas.output_size() of the 800 x 600 window
WindowBounds == << L(800), L(600) >>

Untracked(rotation, has_drag) == BodyOf(NoVec, NoVec, rotation, has_drag)

Labelled(e, id, born) == [e EXCEPT !.id = id, !.born = born]

\* the entities vec! of lines 489-558
Roster ==
    << Labelled(EntityOf(Untracked(0, TRUE), "Yes", Polygon(SHIP_VERTS),
                         CyclicTriangles(SHIP_VERTS),
                         Player("Space", "Up", "Left", "Right")), 1, 0),
       Labelled(EntityOf(Untracked(0, TRUE), "Yes", Polygon(SHIP_VERTS),
                         CyclicTriangles(SHIP_VERTS),
                         Player("LCtrl", "W", "A", "D")), 2, 0),
       Labelled(new_asteroid(3, Untracked(0, FALSE), NoVec), 3, 0),
       Labelled(new_asteroid(2, Untracked(0, FALSE), NoVec), 4, 0),
       Labelled(new_asteroid(1, Untracked(0, FALSE), NoVec), 5, 0) >>

Ids(v) == {v[t].id : t \in DOMAIN v}

NoMap == [x \in {} |-> 0]

UnitIdle ==
    /\ ent = NoShape
    /\ other = NoShape
    /\ out = NoShape
    /\ calls = 0
    /\ held = {}

WorldInit(run) ==
    /\ entities = Roster
    /\ pc = "input"
    /\ tick = 0
    /\ i = 0
    /\ j = 0
    /\ polled = 0
    /\ nextId = Len(Roster) + 1
    /\ made = NoMap
    /\ expired = NoMap
    /\ hits = {}
    /\ startIds = {}
    /\ compared = {}
    /\ twice = {}
    /\ limits = run
    /\ UnitIdle

Init == WorldInit(ShortRun)

InitLife == WorldInit(LongRun)

\* ids and ticks of creation for the entities appended in this iteration
Fresh(news) == [t \in DOMAIN news |-> Labelled(news[t], nextId + t - 1, tick)]

Record(news) ==
    [id \in (DOMAIN made) \cup {nextId + t - 1 : t \in DOMAIN news} |->
        IF id \in DOMAIN made THEN made[id]
        ELSE [tag |-> news[id - nextId + 1].kind.tag, born |-> tick]]

\* extend that puts the new entities in front of the collection
extend_in_front(kept, news) ==
    /\ entities' = Fresh(news) \o kept
    /\ nextId' = nextId + Len(news)
    /\ made' = Record(news)

\* entities.extend(news) on the collection kept so far
Extend(kept, news) ==
    /\ entities' = kept \o Fresh(news)
    /\ nextId' = nextId + Len(news)
    /\ made' = Record(news)

\* lines 564-578: one event of poll_iter is handled by every entity, the
\* spawned entities are appended, Quit and Escape leave the loop
DispatchEvent(event) ==
    /\ pc = "input"
    /\ polled < limits.max_events
    /\ tick < limits.window
    /\ event \in limits.events
    /\ limits' = IF limits.once THEN [limits EXCEPT !.events = @ \ {event}]
                 ELSE limits
    /\ Extend([t \in DOMAIN entities |-> handle_event(entities[t], event).entity],
              Flatten([t \in DOMAIN entities |->
                          handle_event(entities[t], event).new_entities]))
    /\ polled' = polled + 1
    /\ pc' = IF event.type = "Quit"
                \/ (event.type = "KeyDown" /\ event.keycode = "Escape")
             THEN "done" ELSE "input"
    /\ UNCHANGED << tick, i, j, expired, hits, startIds, compared, twice >>
    /\ UNCHANGED unitVars

\* poll_iter is exhausted
EndInput ==
    /\ pc = "input"
    /\ pc' = "step"
    /\ UNCHANGED << entities, tick, i, j, polled, nextId, made, expired, hits,
                    startIds, compared, twice, limits >>
    /\ UNCHANGED unitVars

Kept(r) == r.result = "None"

Removed(r) == r.result = "RemoveEntity"

EntityIn(r) == r.entity

RECURSIVE MapEntity(_)
MapEntity(stepped) ==
    IF stepped = << >> THEN << >>
    ELSE << EntityIn(Head(stepped)) >> \o MapEntity(Tail(stepped))

\* retain_mut with a closure that returns true whatever the step returned
retain_all(stepped) ==
    /\ entities' = MapEntity(stepped)
    /\ expired' = expired

\* retain_mut on the results of step: the entities whose step returned None
\* stay, in order; the others are recorded as expired in this tick
Retain(stepped) ==
    /\ entities' = MapEntity(SelectSeq(stepped, Kept))
    /\ expired' = [id \in (DOMAIN expired) \cup Ids(MapEntity(SelectSeq(stepped, Removed))) |->
                     IF id \in DOMAIN expired THEN expired[id] ELSE tick]

\* lines 581-587: retain_mut steps every entity and drops those whose step
\* returned RemoveEntity; line 627: i = 0
StepPhase ==
    /\ pc = "step"
    /\ Retain([t \in DOMAIN entities |-> step(entities[t], WindowBounds)])
    /\ startIds' = Ids(entities')
    /\ pc' = "scan"
    /\ i' = 0
    /\ j' = 0
    /\ compared' = {}
    /\ twice' = {}
    /\ UNCHANGED << tick, polled, nextId, made, hits, limits >>
    /\ UNCHANGED unitVars


\* the pair tested by the body of the inner loop, line 631
Ei == entities[i + 1]

Ej == entities[j + 1]

PairAt(ii, jj) == {entities[ii + 1].id, entities[jj + 1].id}

\* (a, b) comes before (c, d) in the order of the two loops
Before(a, b, c, d) == a < c \/ (a = c /\ b < d)

\* the pairs (i, j) the loops have yet to reach from their head at (ii, jj)
Ahead(ii, jj) ==
    {p \in (0..(Len(entities) - 1)) \X (0..(Len(entities) - 1)) :
        p[2] < p[1] /\ ~Before(p[1], p[2], ii, jj)}

\* those of them for which collides_with is true
Stops(ahead) ==
    {p \in ahead : collides_with(entities[p[1] + 1], entities[p[2] + 1])}

\* the first of them in the order of the loops
FirstOf(stops) ==
    CHOOSE p \in stops : \A q \in stops : ~Before(q[1], q[2], p[1], p[2])

\* the pairs the loops pass before they reach the first stop
Passed(ahead, stops) ==
    IF stops = {} THEN ahead
    ELSE UNION {{p \in ahead : Before(p[1], p[2], first[1], first[2])} :
                    first \in {FirstOf(stops)}}

PairsAt(passed) == {PairAt(p[1], p[2]) : p \in passed}

ScanTo(ii, jj, cmp, tw, stops, pairs) ==
    [i        |-> IF stops # {} THEN FirstOf(stops)[1]
                  ELSE IF ii < Len(entities) THEN Len(entities)
                  ELSE IF jj = 0 THEN ii ELSE ii + 1,
     j        |-> IF stops # {} THEN FirstOf(stops)[2] ELSE 0,
     compared |-> cmp \cup pairs,
     twice    |-> tw \cup (pairs \cap cmp),
     done     |-> stops = {}]

ScanOver(ii, jj, cmp, tw, ahead) ==
    CHOOSE to \in {ScanTo(ii, jj, cmp, tw, stops, PairsAt(Passed(ahead, stops))) :
                       stops \in {Stops(ahead)}} : TRUE

\* the scan from the head of the loops at (ii, jj) over the pairs for which
\* collides_with is false (line 631 is false and nothing is done), up to the
\* next pair for which collides_with is true, or to the end of the outer loop
ScanFrom(ii, jj, cmp, tw) == ScanOver(ii, jj, cmp, tw, Ahead(ii, jj))

Tested ==
    /\ compared' = compared \cup {PairAt(i, j)}
    /\ twice' = IF PairAt(i, j) \in compared THEN twice \cup {PairAt(i, j)}
                ELSE twice

\* in the body of the inner loop, at a pair for which collides_with is true
InBody ==
    /\ pc = "scan"
    /\ i < Len(entities)
    /\ j < i
    /\ collides_with(Ei, Ej)

Jump(to) ==
    /\ i' = to.i
    /\ j' = to.j
    /\ compared' = to.compared
    /\ twice' = to.twice
    /\ pc' = IF to.done THEN "publish" ELSE "scan"

\* lines 628-631 and 688-690: the loops run over the pairs for which
\* collides_with is false
ScanAdvance ==
    /\ pc = "scan"
    /\ ~InBody
    /\ \E to \in {ScanFrom(i, j, compared, twice)} : Jump(to)
    /\ UNCHANGED << entities, tick, polled, nextId, made, expired, hits,
                    startIds, limits >>
    /\ UNCHANGED unitVars

\* line 631: collides_with is true and collision returns false; line 688
ScanMiss ==
    /\ InBody
    /\ Tested
    /\ j' = j + 1
    /\ UNCHANGED << entities, pc, tick, i, polled, nextId, made, expired, hits,
                    startIds, limits >>
    /\ UNCHANGED unitVars

\* ScanPlayer with arms that remove the entity at i
scan_player_dies ==
    /\ InBody
    /\ "Player" \in {Ei.kind.tag, Ej.kind.tag}
    /\ Tested
    /\ entities' = swap_remove(entities, i).rest
    /\ j' = j + 1
    /\ UNCHANGED << pc, tick, i, polled, nextId, made, expired, hits,
                    startIds, limits >>
    /\ UNCHANGED unitVars

\* lines 646-684: collision returns true and one of the two is a Player: a
\* message is printed
ScanPlayer ==
    /\ InBody
    /\ "Player" \in {Ei.kind.tag, Ej.kind.tag}
    /\ Tested
    /\ j' = j + 1
    /\ UNCHANGED << entities, pc, tick, i, polled, nextId, made, expired, hits,
                    startIds, limits >>
    /\ UNCHANGED unitVars

\* the two swap_remove calls and the macro call of lines 637-639 and 642-644:
\* first is entities[i.max(j)], second is entities[i.min(j)]
Panicked ==
    /\ pc' = "panic"
    /\ UNCHANGED << entities, nextId, made, hits >>

\* the macro call on the two removed entities
Split(rest, asteroid, bullet, news) ==
    IF news = Panic THEN Panicked
    ELSE /\ pc' = pc
         /\ Extend(rest, news)
         /\ hits' = hits \cup {asteroid.id, bullet.id}

\* the debris directions of a split: gen_range(0.0..=TAU) draws not tracked
Directions == [t \in 1..(4 * MaxAsteroidSize) |-> 0]

Removed2(asteroidFirst, one, two) ==
    IF two = Panic THEN Panicked
    ELSE IF asteroidFirst
    THEN Split(two.rest, one.elem, two.elem,
               split_asteroid(one.elem, two.elem, Directions))
    ELSE Split(two.rest, two.elem, one.elem,
               split_asteroid(two.elem, one.elem, Directions))

Removed1(asteroidFirst, one) ==
    IF one = Panic THEN Panicked
    ELSE Removed2(asteroidFirst, one, swap_remove(one.rest, Min2(i, j)))

\* Resolve with the swap_remove at the lower index made first
resolve_low_first(asteroidFirst) ==
    LET low  == swap_remove(entities, Min2(i, j))
        high == IF low = Panic THEN Panic
                ELSE swap_remove(low.rest, Max2(i, j))
    IN  IF high = Panic THEN Panicked
        ELSE IF asteroidFirst
        THEN Split(high.rest, high.elem, low.elem,
                   split_asteroid(high.elem, low.elem, Directions))
        ELSE Split(high.rest, low.elem, high.elem,
                   split_asteroid(low.elem, high.elem, Directions))

Resolve(asteroidFirst) ==
    Removed1(asteroidFirst, swap_remove(entities, Max2(i, j)))

\* lines 636-640: entities[i] is a Bullet, entities[j] an Asteroid, and
\* collision returned true
ScanBulletAsteroid ==
    /\ InBody
    /\ tick < limits.window
    /\ Ei.kind.tag = "Bullet" /\ Ej.kind.tag = "Asteroid"
    /\ Tested
    /\ Resolve(FALSE)
    /\ j' = j + 1
    /\ UNCHANGED << tick, i, polled, expired, startIds, limits >>
    /\ UNCHANGED unitVars

\* lines 641-645: entities[i] is an Asteroid, entities[j] a Bullet, and
\* collision returned true
ScanAsteroidBullet ==
    /\ InBody
    /\ tick < limits.window
    /\ Ei.kind.tag = "Asteroid" /\ Ej.kind.tag = "Bullet"
    /\ Tested
    /\ Resolve(TRUE)
    /\ j' = j + 1
    /\ UNCHANGED << tick, i, polled, expired, startIds, limits >>
    /\ UNCHANGED unitVars

\* lines 694-752: the entities are drawn and the next iteration begins
Publish ==
    /\ pc = "publish"
    /\ tick < limits.max_tick
    /\ tick' = tick + 1
    /\ pc' = "input"
    /\ UNCHANGED << entities, i, j, polled, nextId, made, expired, hits, startIds,
                    compared, twice, limits >>
    /\ UNCHANGED unitVars

Next ==
    \/ \E event \in WorldEvents : DispatchEvent(event)
    \/ EndInput
    \/ StepPhase
    \/ ScanAdvance
    \/ ScanMiss
    \/ ScanPlayer
    \/ ScanBulletAsteroid
    \/ ScanAsteroidBullet
    \/ Publish

Spec == Init /\ [][Next]_vars

SpecLife == InitLife /\ [][Next]_vars

----------------------------------------------------------------------------
(* The collision scan of main on any list of entities *)

\* the longest list the scan is started on
MaxList == 3

\* one entity of each kind, and an asteroid of each size, as the program
\* makes them
ScanEntities ==
    { Roster[1],
      BulletFiredBy(Roster[1]),
      new_debris(Untracked(0, FALSE), NoVec) }
    \cup { new_asteroid(size, Untracked(0, FALSE), NoVec) :
             size \in 1..MaxAsteroidSize }

\* the list with its entities numbered in order
Numbered(v) == [t \in DOMAIN v |-> Labelled(v[t], t, 0)]

ScanLists ==
    UNION { { Numbered(v) : v \in [1..n -> ScanEntities] } : n \in 0..MaxList }

\* one collision phase, in which any pair may be found to collide
ScanRun ==
    [max_tick |-> 0, window |-> 1, events |-> {}, max_events |-> 0,
     once |-> FALSE]

\* line 627, let mut i = 0, on a list of the set; the entities of the list
\* were made earlier in the run
InitScan ==
    /\ entities \in ScanLists
    /\ pc = "scan"
    /\ tick = 0
    /\ i = 0
    /\ j = 0
    /\ polled = 0
    /\ nextId = Len(entities) + 1
    /\ made = [id \in DOMAIN entities |->
                  [tag |-> entities[id].kind.tag, born |-> 0]]
    /\ expired = NoMap
    /\ hits = {}
    /\ startIds = Ids(entities)
    /\ compared = {}
    /\ twice = {}
    /\ limits = ScanRun
    /\ UnitIdle

NextScan ==
    \/ ScanAdvance
    \/ ScanMiss
    \/ ScanPlayer
    \/ ScanBulletAsteroid
    \/ ScanAsteroidBullet

SpecScan == InitScan /\ [][NextScan]_vars

\* the loops are run by main alone, which does not pause between statements
SpecScanLive == SpecScan /\ WF_vars(NextScan)

----------------------------------------------------------------------------
(* Properties of the game loop *)

\* the state at the end of iteration number tick: the scan is over
EndOfTick == pc = "publish"

Present(id) == id \in Ids(entities)

MadeAs(tag) == {id \in DOMAIN made : made[id].tag = tag}

\* the indices of v holding an entity appended by the step being taken
NewIn(v) == {t \in DOMAIN v : v[t].id >= nextId}

\* a step of the scan in which a Bullet x Asteroid arm ran
Resolved ==
    /\ InBody
    /\ {Ei.kind.tag, Ej.kind.tag} = {"Bullet", "Asteroid"}
    /\ (entities' # entities \/ pc' = "panic")

\* C1: when a Bullet x Asteroid collision is resolved for an asteroid of
\* size S, with the asteroid at either index, exactly 2 asteroids of size
\* S-1 are appended when S > 1 and none when S = 1, exactly 4*S-2 Debris are
\* appended, nothing else is appended, and the asteroid and the bullet are
\* no longer in the collection.
SplitLaw ==
    [][Resolved =>
        LET rock == IF Ei.kind.tag = "Asteroid" THEN Ei ELSE Ej
            shot == IF Ei.kind.tag = "Asteroid" THEN Ej ELSE Ei
            S    == rock.kind.size
            news == NewIn(entities')
            rocks == {t \in news : entities'[t].kind.tag = "Asteroid"}
            dust  == {t \in news : entities'[t].kind.tag = "Debris"}
        IN  /\ pc' = "scan"
            /\ Cardinality(rocks) = IF S > 1 THEN 2 ELSE 0
            /\ \A t \in rocks : entities'[t].kind.size = S - 1
            /\ Cardinality(dust) = 4 * S - 2
            /\ news = rocks \cup dust
            /\ Ids(entities') \cap {rock.id, shot.id} = {}
            /\ Len(entities') = Len(entities) - 2 + Cardinality(news)]_vars

\* the size-3 asteroid of the roster has just been split by a bullet: two
\* size-2 asteroids and ten debris were appended in this iteration
LargeRockSplit ==
    /\ pc = "scan"
    /\ 3 \in hits
    /\ Cardinality({t \in DOMAIN entities :
                       /\ entities[t].kind = Asteroid(2)
                       /\ entities[t].id > Len(Roster)
                       /\ entities[t].born = tick}) = 2
    /\ Cardinality({t \in DOMAIN entities :
                       /\ entities[t].kind.tag = "Debris"
                       /\ entities[t].born = tick}) = 10
    /\ Cardinality(hits) = 2

\* C2: at the end of the collision phase, any two entities that were in the
\* collection when the phase began and are both still in it have been
\* compared exactly once during the phase.
EveryPairOnce ==
    EndOfTick =>
        \A a \in startIds : \A b \in startIds :
            (a # b /\ Present(a) /\ Present(b))
                => ({a, b} \in compared /\ {a, b} \notin twice)

\* C3: a Bullet created with ttl 120 in the input phase of tick t and not
\* removed by a collision is in the collection at the end of every tick
\* t..t+119 and in none from t+120 on; its step returns RemoveEntity in tick
\* t+120, the step in which its ttl, then 0, would go below zero.
BulletLifetime ==
    \A id \in MadeAs("Bullet") \ hits :
        LET t == made[id].born
        IN  /\ EndOfTick => (Present(id) <=> tick <= t + BulletTtl - 1)
            /\ \A n \in DOMAIN entities :
                   (EndOfTick /\ entities[n].id = id)
                       => entities[n].kind.ttl = BulletTtl - 1 - (tick - t)
            /\ id \in DOMAIN expired => expired[id] = t + BulletTtl

\* a bullet fired in tick 0 was in the collection at the end of tick 119,
\* its step in tick 120 returned RemoveEntity, and tick 120 has ended
BulletExpired ==
    /\ EndOfTick
    /\ tick = BulletTtl
    /\ \E id \in MadeAs("Bullet") \ hits :
           /\ made[id].born = 0
           /\ ~Present(id)
           /\ id \in DOMAIN expired
           /\ expired[id] = BulletTtl

\* C4: a Debris created with ttl 30 in the collision phase of a tick is in
\* the collection at the end of that tick and of the next 29 ticks, and at
\* the end of none from the 30th tick after it on.
DebrisLifetime ==
    EndOfTick =>
        \A id \in MadeAs("Debris") :
            Present(id) <=> tick - made[id].born <= DebrisTtl - 1

\* C9: every Asteroid in the collection has size 1, 2 or 3 and new_asteroid
\* never panics; a split of a size > 1 asteroid appends asteroids of size
\* exactly size - 1, and a split of a size-1 asteroid appends no asteroid.
AsteroidSizes ==
    /\ [](/\ pc # "panic"
          /\ \A t \in DOMAIN entities :
                 entities[t].kind.tag = "Asteroid"
                     => entities[t].kind.size \in 1..MaxAsteroidSize)
    /\ [][Resolved =>
            LET rock == IF Ei.kind.tag = "Asteroid" THEN Ei ELSE Ej
            IN  \A t \in NewIn(entities') :
                    entities'[t].kind.tag = "Asteroid"
                        => /\ rock.kind.size > 1
                           /\ entities'[t].kind.size = rock.kind.size - 1]_vars

\* the size-2 asteroid of the roster was split, and then one of its two
\* size-1 children was split and left no asteroid behind
SmallChildSplit ==
    /\ 4 \in hits
    /\ \E id \in hits : id > Len(Roster) /\ made[id].tag = "Asteroid"
    /\ Cardinality({t \in DOMAIN entities :
                       /\ entities[t].kind = Asteroid(1)
                       /\ entities[t].id > Len(Roster)}) = 1
    /\ Cardinality({t \in DOMAIN entities :
                       entities[t].kind.tag = "Asteroid"}) = 3

----------------------------------------------------------------------------
(* One entity: Entity::handle_event and Entity::step applied to an entity  *)
(* whose body is tracked                                                   *)

\* calls of step in SpecStep
MaxSteps == 2
\* calls of step in SpecTurn
TurnSteps == 6

PlayerKeys == {"Up", "Left", "Right", "Space"}

StepEvents ==
    {KeyDown(k, FALSE) : k \in PlayerKeys} \cup {KeyUp(k) : k \in PlayerKeys}

TurnEvents ==
    {KeyDown(k, FALSE) : k \in {"Left", "Right"}}
        \cup {KeyUp(k) : k \in {"Left", "Right"}}

StepPositions == { << 0, 0 >>, << L(300), L(300) >>, << L(790), L(-5) >> }

StepVelocities ==
    { << 0, 0 >>, << -1, 1 >>, << L(3), L(2) >>, << L(1000), L(-700) >> }

StepBounds == { << L(800), L(600) >>, << L(100), L(100) >> }

Wraps == {"Yes", "No", "OnceOnScreen"}

\* the first player of the roster, placed
Ship(position, velocity, wrap) ==
    EntityOf(BodyOf(position, velocity, 0, TRUE), wrap, Polygon(SHIP_VERTS),
             CyclicTriangles(SHIP_VERTS), Player("Space", "Up", "Left", "Right"))

\* a heading at which one more turn to the left changes the thrust
StepRotation == RoundQ(4 * TurnRate, 1)

\* the first ship of the roster after it has turned
TurnedShip(velocity, wrap) ==
    EntityOf(BodyOf(<< L(300), L(300) >>, velocity, StepRotation, TRUE), wrap,
             Polygon(SHIP_VERTS), CyclicTriangles(SHIP_VERTS),
             Player("Space", "Up", "Left", "Right"))

StepEntities ==
    UNION { { Ship(p, v, w),
              EntityOf(BodyOf(p, v, 0, FALSE), w, Polygon(BULLET_VERTS),
                       BULLET_BOUNDS, Bullet(BulletTtl)),
              EntityOf(BodyOf(p, v, FRAC_PI_2, FALSE), w, Polygon(BULLET_VERTS),
                       BULLET_BOUNDS, Bullet(0)),
              EntityOf(BodyOf(p, v, 0, FALSE), w, NoShape, NoShape,
                       Debris(1)) } :
            p \in StepPositions, v \in StepVelocities, w \in Wraps }
    \cup { TurnedShip(<< 0, 0 >>, w) : w \in Wraps }

WorldIdle(run) ==
    /\ entities = << >>
    /\ pc = "unit"
    /\ tick = 0
    /\ i = 0
    /\ j = 0
    /\ polled = 0
    /\ nextId = 1
    /\ made = NoMap
    /\ expired = NoMap
    /\ hits = {}
    /\ startIds = {}
    /\ compared = {}
    /\ twice = {}
    /\ limits = run

InitStep ==
    /\ \E b \in StepBounds :
           WorldIdle([max_calls |-> MaxSteps, events |-> StepEvents, bounds |-> b])
    /\ ent \in StepEntities
    /\ other = NoShape
    /\ out = NoShape
    /\ calls = 0
    /\ held = {}

InitTurn ==
    /\ WorldIdle([max_calls |-> TurnSteps, events |-> TurnEvents,
                  bounds |-> WindowBounds])
    /\ ent = Ship(<< L(300), L(300) >>, << 0, 0 >>, "Yes")
    /\ other = NoShape
    /\ out = NoShape
    /\ calls = 0
    /\ held = {}

\* handle_event is called on the entity
UnitEvent(event) ==
    /\ pc = "unit"
    /\ event \in limits.events
    /\ ent' = handle_event(ent, event).entity
    /\ out' = [call |-> "handle_event",
               new_entities |-> handle_event(ent, event).new_entities]
    /\ UNCHANGED << other, calls, held >>
    /\ UNCHANGED worldVars

Stepped(r) ==
    /\ ent' = r.entity
    /\ out' = [call |-> "step", result |-> r.result, wrap |-> ent.wrap]
    /\ pc' = IF r.result = "RemoveEntity" THEN "removed" ELSE "unit"

\* step is called on the entity; retain_mut drops it on RemoveEntity.
\* out keeps the wrap mode the entity had when the call began.
UnitStep ==
    /\ pc = "unit"
    /\ calls < limits.max_calls
    /\ Stepped(step(ent, limits.bounds))
    /\ calls' = calls + 1
    /\ UNCHANGED << other, held >>
    /\ UNCHANGED << entities, tick, i, j, polled, nextId, made, expired, hits,
                    startIds, compared, twice, limits >>

NextUnit ==
    \/ \E event \in StepEvents : UnitEvent(event)
    \/ UnitStep

SpecStep == InitStep /\ [][NextUnit]_vars

SpecTurn == InitTurn /\ [][NextUnit]_vars

----------------------------------------------------------------------------
(* Two entities: Entity::collides_with and Entity::collision applied to a  *)
(* pair whose bodies and hulls are tracked                                 *)

\* the distances gen_range returned for the vertices of a rock
RockDraws(vert_count, min_distance) ==
    [idx \in 1..vert_count |-> min_distance + L(idx % 4)]

PairOrigin == << L(100), L(100) >>

\* where the second entity lies: on the first, beside the nose of a ship,
\* a ship's width away, far away
PairPositions ==
    { PairOrigin, << L(108), L(85) >>, << L(125), L(100) >>, << L(400), L(300) >> }

PairEntities(p) ==
    { Ship(p, << 0, 0 >>, "Yes"),
      EntityOf(BodyOf(p, << L(1), 0 >>, FRAC_PI_2, TRUE), "Yes",
               Polygon(SHIP_VERTS), CyclicTriangles(SHIP_VERTS),
               Player("LCtrl", "W", "A", "D")),
      EntityOf(BodyOf(p, << 0, -L(4) >>, 0, FALSE), "Yes",
               Polygon(BULLET_VERTS), BULLET_BOUNDS, Bullet(BulletTtl)),
      EntityOf(BodyOf(p, << L(4), 0 >>, FRAC_PI_2, FALSE), "Yes",
               Polygon(BULLET_VERTS), BULLET_BOUNDS, Bullet(0)),
      new_asteroid(1, BodyOf(p, << 0, 0 >>, 0, FALSE), RockDraws(6, L(20))),
      new_asteroid(2, BodyOf(p, << L(1), 0 >>, 0, FALSE), RockDraws(8, L(30))),
      new_asteroid(3, BodyOf(p, << 0, L(1) >>, FRAC_PI_2, FALSE),
                   RockDraws(14, L(39))),
      new_debris(BodyOf(p, << L(4), 0 >>, 0, FALSE), RockDraws(9, L(2))) }

InitColl ==
    /\ WorldIdle([max_calls |-> 1, events |-> {}, bounds |-> WindowBounds])
    /\ ent \in PairEntities(PairOrigin)
    /\ \E p \in PairPositions : other \in PairEntities(p)
    /\ out = NoShape
    /\ calls = 0
    /\ held = {}

\* the condition of the scan, lines 631-632, on the pair (ent, other)
Compare ==
    /\ pc = "unit"
    /\ calls < limits.max_calls
    /\ out' = [call         |-> "compare",
               collides_with |-> collides_with(ent, other),
               collision     |-> collision(ent, other)]
    /\ calls' = calls + 1
    /\ UNCHANGED << ent, other, held >>
    /\ UNCHANGED worldVars

NextColl == Compare

SpecColl == InitColl /\ [][NextColl]_vars

----------------------------------------------------------------------------
(* The fast-negative check of Entity::collision on one pair of triangles *)

\* the largest coordinate, in whole units, of the corners of other_triangle
GridMax == 2

GridPoints == { << L(x), L(y) >> : x \in 0..GridMax, y \in 0..GridMax }

\* self_triangle: one with an interior, one with two corners, one with a
\* single corner, one with three corners on a line
SelfTriangles ==
    { << << L(1), L(1) >>, << L(2), L(1) >>, << L(1), L(2) >> >>,
      << << L(1), L(1) >>, << L(2), L(2) >>, << L(1), L(1) >> >>,
      << << L(1), L(1) >>, << L(1), L(1) >>, << L(1), L(1) >> >>,
      << << L(0), L(1) >>, << L(1), L(1) >>, << L(2), L(1) >> >> }

OtherTriangles == { << a, b, c >> : a \in GridPoints, b \in GridPoints, c \in GridPoints }

InitBoxes ==
    /\ WorldIdle([max_calls |-> 1, events |-> {}, bounds |-> WindowBounds])
    /\ ent \in SelfTriangles
    /\ other \in OtherTriangles
    /\ out = NoShape
    /\ calls = 0
    /\ held = {}

\* lines 392-398 on the pair (self_triangle, other_triangle)
FastNegative ==
    /\ pc = "unit"
    /\ calls < limits.max_calls
    /\ out' = [call |-> "fast_negative", skipped |-> BoxesApart(ent, other)]
    /\ calls' = calls + 1
    /\ UNCHANGED << ent, other, held >>
    /\ UNCHANGED worldVars

NextBoxes == FastNegative

SpecBoxes == InitBoxes /\ [][NextBoxes]_vars

----------------------------------------------------------------------------
(* asteroid_verts and new_asteroid called with any argument *)

\* the largest vert_count asteroid_verts is given
MaxVerts == 4
\* calls made in a run
MaxMakes == 3

VertCounts == 0..MaxVerts

\* one size past the match arms of new_asteroid
Sizes == 0..(MaxAsteroidSize + 1)

\* the draws of the rng a call of new_asteroid uses
SizedDraws(size) ==
    CASE size = 1 -> RockDraws(6, L(20))
      [] size = 2 -> RockDraws(8, L(30))
      [] size = 3 -> RockDraws(14, L(39))
      [] OTHER    -> NoVec

InitMake ==
    /\ WorldIdle([max_calls |-> MaxMakes, events |-> {}, bounds |-> WindowBounds])
    /\ ent = NoShape
    /\ other = NoShape
    /\ out = NoShape
    /\ calls = 0
    /\ held = {}

\* the call has returned, or has panicked and ended the program
Returned(value) ==
    pc' = IF value = Panic THEN "panic" ELSE pc

\* the caller adds the entity to the collection once the call has returned
Added(e) ==
    IF e = Panic THEN UNCHANGED << entities, nextId, made >>
    ELSE Extend(entities, << e >>)

\* asteroid_verts(vert_count, 2.0, 5.0)
MakeVerts(vert_count) ==
    /\ pc = "unit"
    /\ calls < limits.max_calls
    /\ out' = [call |-> "asteroid_verts", arg |-> vert_count,
               returned |-> asteroid_verts(vert_count, L(2), L(5),
                                           RockDraws(vert_count, L(2)))]
    /\ Returned(asteroid_verts(vert_count, L(2), L(5), RockDraws(vert_count, L(2))))
    /\ calls' = calls + 1
    /\ UNCHANGED << entities, nextId, made >>
    /\ UNCHANGED << tick, i, j, polled, expired, hits, startIds, compared,
                    twice, limits >>
    /\ UNCHANGED << ent, other, held >>

\* entities.extend([new_asteroid(size, body)])
MakeAsteroid(size) ==
    /\ pc = "unit"
    /\ calls < limits.max_calls
    /\ out' = [call |-> "new_asteroid", arg |-> size,
               returned |-> new_asteroid(size, Untracked(0, FALSE), SizedDraws(size))]
    /\ Returned(new_asteroid(size, Untracked(0, FALSE), SizedDraws(size)))
    /\ Added(new_asteroid(size, Untracked(0, FALSE), SizedDraws(size)))
    /\ calls' = calls + 1
    /\ UNCHANGED << tick, i, j, polled, expired, hits, startIds, compared,
                    twice, limits >>
    /\ UNCHANGED << ent, other, held >>

NextMake ==
    \/ \E vert_count \in VertCounts : MakeVerts(vert_count)
    \/ \E size \in Sizes : MakeAsteroid(size)

SpecMake == InitMake /\ [][NextMake]_vars

----------------------------------------------------------------------------
(* Entity::handle_event on one entity, under every binding of the keys *)

\* the Option<Keycode> values a binding is drawn from: None and four keys
Bindings == {NoKey, "Space", "Up", "Left", "Right"}

\* the keycode of an event: a key that may be bound, a key bound to nothing,
\* or None
EventKeys == Bindings \cup {"W"}

KeyEvents ==
    {KeyDown(k, rep) : k \in EventKeys, rep \in BOOLEAN}
        \cup {KeyUp(k) : k \in EventKeys}
        \cup {Quit}

KeyPosition == << L(300), L(300) >>

KeyVelocity == << L(3), L(2) >>

KeyRotations == {0, FRAC_PI_2, RoundQ(3 * TurnRate, 1)}

\* a ship as roster makes it, with the bindings given
BoundShip(rotation, kind) ==
    EntityOf(BodyOf(KeyPosition, KeyVelocity, rotation, TRUE), "Yes",
             Polygon(SHIP_VERTS), CyclicTriangles(SHIP_VERTS), kind)

\* every assignment of the four bindings on a ship that points up, and the
\* bindings of the first ship of roster on ships that point elsewhere
KeyPlayers ==
    { BoundShip(0, Player(fire, accelerate, turn_left, turn_right)) :
        fire \in Bindings, accelerate \in Bindings,
        turn_left \in Bindings, turn_right \in Bindings }
    \cup { BoundShip(rotation, Player("Space", "Up", "Left", "Right")) :
             rotation \in KeyRotations }

KeyOthers ==
    { EntityOf(BodyOf(KeyPosition, KeyVelocity, 0, FALSE), "Yes",
               Polygon(BULLET_VERTS), BULLET_BOUNDS, Bullet(BulletTtl)),
      new_asteroid(2, BodyOf(KeyPosition, KeyVelocity, FRAC_PI_2, FALSE),
                   RockDraws(8, L(30))),
      new_debris(BodyOf(KeyPosition, KeyVelocity, 0, FALSE),
                 RockDraws(9, L(2))) }

InitKeys ==
    /\ WorldIdle([max_calls |-> 0, events |-> KeyEvents, bounds |-> WindowBounds])
    /\ ent \in KeyPlayers \cup KeyOthers
    /\ other = NoShape
    /\ out = NoShape
    /\ calls = 0
    /\ held = {}

\* the keys whose latest press or release was a press, after the event:
\* a repeated press is not a press, an event without a keycode names no key
Held(h, event) ==
    IF event.keycode = NoKey THEN h
    ELSE IF event.type = "KeyDown" /\ ~event.repeat THEN h \cup {event.keycode}
    ELSE IF event.type = "KeyUp" THEN h \ {event.keycode}
    ELSE h

\* handle_event is called on the entity, and the history of the keys kept
KeyEvent(event) ==
    /\ pc = "unit"
    /\ event \in limits.events
    /\ ent' = handle_event(ent, event).entity
    /\ out' = [call |-> "handle_event",
               new_entities |-> handle_event(ent, event).new_entities]
    /\ held' = Held(held, event)
    /\ UNCHANGED << other, calls >>
    /\ UNCHANGED worldVars

NextKeys == \E event \in KeyEvents : KeyEvent(event)

SpecKeys == InitKeys /\ [][NextKeys]_vars

----------------------------------------------------------------------------
(* Properties of Entity::step on one entity *)

\* the call whose effect the state shows
LastCall == IF "call" \in DOMAIN out THEN out.call ELSE "none"

OnScreen(position, bounds) ==
    /\ 0 <= position[1] /\ position[1] < bounds[1]
    /\ 0 <= position[2] /\ position[2] < bounds[2]

\* C5: after every call of step with positive bounds, an entity whose wrap
\* mode is Yes when the call returns has 0 <= position.x < bounds.x and
\* 0 <= position.y < bounds.y, whatever its position, velocity and wrap mode
\* were when the call began.
WrapInvariant ==
    (LastCall = "step" /\ ent.wrap = "Yes")
        => OnScreen(ent.body.position, limits.bounds)

\* C6: a step changes the wrap mode only from OnceOnScreen to Yes, and
\* no other call changes it: Yes stays Yes, No stays No, and nothing sets
\* the mode to No or to OnceOnScreen.
WrapMonotonic ==
    [][ent'.wrap # ent.wrap
          => /\ ent.wrap = "OnceOnScreen"
             /\ ent'.wrap = "Yes"
             /\ calls' = calls + 1]_vars

\* a step has just taken an entity that came on screen from OnceOnScreen to Yes
WrapPromoted ==
    /\ LastCall = "step"
    /\ out.wrap = "OnceOnScreen"
    /\ ent.wrap = "Yes"
    /\ ent.body.velocity # << 0, 0 >>

\* C7: after any sequence of input events and steps the rotation of an
\* entity is at least 0 and less than a full turn.
RotationInvariant ==
    /\ 0 <= ent.body.rotation
    /\ ent.body.rotation < TAU

\* the velocity after the thrust, along the heading given
Thrusted(body, rotation) ==
    IF body.accelerating
    THEN VAdd(body.velocity, MatVec(rotation_matrix(rotation), << 0, -Thrust >>))
    ELSE body.velocity

\* the velocity the step leaves: thrust along the heading before the
\* turn, then drag
SteppedVelocity(body) ==
    IF body.has_drag THEN VScale(Thrusted(body, body.rotation), 99, 100)
    ELSE Thrusted(body, body.rotation)

\* the rotation the step leaves
SteppedRotation(body) ==
    CASE body.turning_left /\ ~body.turning_right ->
             rem_euclid(FAdd(body.rotation, TurnRate), TAU)
      [] body.turning_right /\ ~body.turning_left ->
             rem_euclid(FSub(body.rotation, TurnRate), TAU)
      [] OTHER -> body.rotation

\* the position the step leaves: moved by the new velocity, then reduced
\* when the entity wraps
SteppedPosition(self, bounds) ==
    LET p == VAdd(self.body.position, SteppedVelocity(self.body))
    IN  IF self.wrap = "Yes"
        THEN << rem_euclid(p[1], bounds[1]), rem_euclid(p[2], bounds[2]) >>
        ELSE p

\* the ttl of a Bullet or Debris has run out
Spent(self) == self.kind.tag \in {"Bullet", "Debris"} /\ self.kind.ttl = 0

\* C17: a step adds the thrust to the velocity along the heading the
\* entity has before the turn, when it accelerates; then turns it; then
\* scales the velocity by 0.99 when it has drag; then moves the position by
\* that velocity; then reduces the position when it wraps; then counts the
\* ttl down; so an entity removed because its ttl ran out has been moved.
StepOrder ==
    [][(calls' = calls + 1 /\ UnitStep)
         => /\ ent'.body.velocity = SteppedVelocity(ent.body)
            /\ ent'.body.rotation = SteppedRotation(ent.body)
            /\ ent'.body.position = SteppedPosition(ent, limits.bounds)
            /\ (out'.result = "RemoveEntity") = Spent(ent)
            /\ ent'.kind = IF ent.kind.tag \in {"Bullet", "Debris"} /\ ~Spent(ent)
                           THEN [ent.kind EXCEPT !.ttl = @ - 1]
                           ELSE ent.kind]_vars

\* a ship at rest that accelerates and turns left has been stepped: it has
\* turned, and its velocity is the thrust along the heading it had before
ThrustBeforeTurn ==
    /\ LastCall = "step"
    /\ calls = 1
    /\ ent.kind.tag = "Player"
    /\ ent.body.accelerating
    /\ ent.body.turning_left /\ ~ent.body.turning_right
    /\ ent.body.rotation = rem_euclid(FAdd(StepRotation, TurnRate), TAU)
    /\ ent.body.velocity = VScale(<< 0, -Thrust >>, 99, 100)
    /\ MatVec(rotation_matrix(ent.body.rotation), << 0, -Thrust >>)
           # << 0, -Thrust >>

\* the point lies in the window, its sides included
InWindow(p, bounds) ==
    /\ 0 <= p[1] /\ p[1] <= bounds[1]
    /\ 0 <= p[2] /\ p[2] <= bounds[2]

\* the position of the entity and every corner of its bounding triangles,
\* placed in the world, lie in the window
WhollyInWindow(self, bounds) ==
    LET triangles == bounding_triangles(self)
    IN  /\ InWindow(self.body.position, bounds)
        /\ \A t \in DOMAIN triangles : \A k \in 1..3 :
               InWindow(triangles[t][k], bounds)

\* C18: a step of an entity whose mode is OnceOnScreen makes the mode Yes
\* exactly when, once the position is updated, the position and every
\* world-space corner of the bounding triangles lie within 0 <= x <= bounds.x
\* and 0 <= y <= bounds.y; otherwise the mode stays OnceOnScreen; either
\* way that step does not reduce the position modulo the bounds.
OnceOnScreenTrigger ==
    [][(ent.wrap = "OnceOnScreen" /\ calls' = calls + 1 /\ UnitStep)
         => /\ ent'.body.position = VAdd(ent.body.position, ent'.body.velocity)
            /\ ent'.wrap = IF WhollyInWindow(ent', limits.bounds)
                           THEN "Yes" ELSE "OnceOnScreen"]_vars

\* an entity without a hull that rests on the corner of the window was on
\* probation and a step has made it wrap
PromotedOnCorner ==
    /\ LastCall = "step"
    /\ out.wrap = "OnceOnScreen"
    /\ ent.wrap = "Yes"
    /\ ent.bounding = NoShape
    /\ ent.body.position = << 0, 0 >>

----------------------------------------------------------------------------
(* Properties of collides_with and collision on a pair *)

\* twice the signed area of the triangle a b c
Orient(a, b, c) ==
    (b[1] - a[1]) * (c[2] - a[2]) - (b[2] - a[2]) * (c[1] - a[1])

\* p lies on the closed segment a b
OnSegment(a, b, p) ==
    /\ Orient(a, b, p) = 0
    /\ Min2(a[1], b[1]) <= p[1] /\ p[1] <= Max2(a[1], b[1])
    /\ Min2(a[2], b[2]) <= p[2] /\ p[2] <= Max2(a[2], b[2])

\* the closed segments a b and c d have a common point
SegmentsMeet(a, b, c, d) ==
    \/ /\ Sgn(Orient(c, d, a)) * Sgn(Orient(c, d, b)) < 0
       /\ Sgn(Orient(a, b, c)) * Sgn(Orient(a, b, d)) < 0
    \/ OnSegment(c, d, a)
    \/ OnSegment(c, d, b)
    \/ OnSegment(a, b, c)
    \/ OnSegment(a, b, d)

\* p lies in the closed triangle t, which has an interior
InTriangle(t, p) ==
    LET d == { Sgn(Orient(t[1], t[2], p)), Sgn(Orient(t[2], t[3], p)),
               Sgn(Orient(t[3], t[1], p)) }
    IN  /\ Orient(t[1], t[2], t[3]) # 0
        /\ ~(1 \in d /\ -1 \in d)

\* the closed triangles s and o have a common point: two sides meet, or one
\* triangle lies inside the other
TrianglesMeet(s, o) ==
    \/ \E a \in 1..3 : \E b \in 1..3 :
           SegmentsMeet(s[a], s[(a % 3) + 1], o[b], o[(b % 3) + 1])
    \/ InTriangle(o, s[1])
    \/ InTriangle(s, o[1])

HullsMeet(self, them) ==
    LET st == bounding_triangles(self)
        ot == bounding_triangles(them)
    IN  \E a \in DOMAIN st : \E b \in DOMAIN ot : TrianglesMeet(st[a], ot[b])

\* C8: collision(A, B) returns true if and only if a world-space triangle
\* of A and a world-space triangle of B have a common point; overlapping
\* bounding boxes of triangles that do not meet do not make it true.
NarrowPhaseExact ==
    LastCall = "compare" => (out.collision <=> HullsMeet(ent, other))

\* what the table gives for a pair of kinds
TableSays(a, b) ==
    /\ a # "Debris" /\ b # "Debris"
    /\ ~(a = "Asteroid" /\ b = "Asteroid")
    /\ ~(a = "Bullet" /\ b = "Bullet")

\* C10: collides_with is false when either kind is Debris, false for
\* Asteroid with Asteroid and Bullet with Bullet, true for every other pair
\* of kinds, whatever the sizes, ttls, key bindings and bodies, and gives
\* the same answer with the two entities exchanged.
CollidesWithTable ==
    LastCall = "compare"
        => /\ out.collides_with = TableSays(ent.kind.tag, other.kind.tag)
           /\ out.collides_with = collides_with(other, ent)

\* a spent bullet has been compared with a large rock lying elsewhere, and
\* the pair is one the table lets collide
BulletRockCompared ==
    /\ LastCall = "compare"
    /\ ent.kind = Bullet(0)
    /\ other.kind = Asteroid(3)
    /\ other.body.position # ent.body.position
    /\ out.collides_with

----------------------------------------------------------------------------
(* Properties of Entity::handle_event on one entity *)

\* a press, not a repeat, of the key the fire binding of the player names
FirePress(self, event) ==
    /\ self.kind.tag = "Player"
    /\ event.type = "KeyDown"
    /\ ~event.repeat
    /\ event.keycode # NoKey
    /\ event.keycode = self.kind.fire

\* the unit vector the entity points along
Heading(self) == MatVec(rotation_matrix(self.body.rotation), << 0, -L(1) >>)

\* b is the bullet the firing law gives the firer
FiredFrom(b, self) ==
    /\ b.kind = [tag |-> "Bullet", ttl |-> 120]
    /\ b.wrap = "Yes"
    /\ b.body.rotation = self.body.rotation
    /\ b.body.position = VAdd(self.body.position, VScale(Heading(self), 20, 1))
    /\ b.body.velocity = VAdd(self.body.velocity, VScale(Heading(self), 4, 1))
    /\ ~b.body.has_drag
    /\ ~b.body.accelerating
    /\ ~b.body.turning_left
    /\ ~b.body.turning_right

DistinctBindings(self) ==
    Cardinality({self.kind.fire, self.kind.accelerate,
                 self.kind.turn_left, self.kind.turn_right}) = 4

\* each intent flag is set exactly when the key bound to it is held
FlagsFollow(self, h) ==
    /\ self.body.accelerating = (self.kind.accelerate \in h)
    /\ self.body.turning_left = (self.kind.turn_left \in h)
    /\ self.body.turning_right = (self.kind.turn_right \in h)

\* a repeated press, an event of a key bound to nothing, or the release of
\* the fire key
NoIntent(self, event) ==
    /\ event.keycode # NoKey
    /\ \/ event.type = "KeyDown" /\ event.repeat
       \/ event.keycode \notin {self.kind.fire, self.kind.accelerate,
                                self.kind.turn_left, self.kind.turn_right}
       \/ event.type = "KeyUp" /\ event.keycode = self.kind.fire

\* C12: for a Player whose four bindings are distinct, after any sequence
\* of events each intent flag is true exactly when the latest event of its
\* key, among presses that are not repeats and releases, was a press; and
\* a repeated press, an event of an unbound key and a release of the fire
\* key change no flag and spawn nothing.
IntentTracking ==
    /\ [](ent.kind.tag = "Player" /\ DistinctBindings(ent)
             => FlagsFollow(ent, held))
    /\ [][\A event \in KeyEvents :
            (/\ ent.kind.tag = "Player"
             /\ DistinctBindings(ent)
             /\ NoIntent(ent, event)
             /\ KeyEvent(event))
                => /\ ent'.body = ent.body
                   /\ out'.new_entities = << >>]_vars

\* a player with distinct bindings holds the keys of fire, accelerate and
\* turn_right, and has pressed and let go of the others
IntentsHeld ==
    /\ ent.kind.tag = "Player"
    /\ DistinctBindings(ent)
    /\ NoKey \notin {ent.kind.fire, ent.kind.accelerate,
                     ent.kind.turn_left, ent.kind.turn_right}
    /\ held = {ent.kind.fire, ent.kind.accelerate, ent.kind.turn_right}
    /\ ent.body.accelerating
    /\ ~ent.body.turning_left
    /\ ent.body.turning_right
    /\ LastCall = "handle_event"
    /\ out.new_entities = << >>

\* C13: only a Player reacts to input: whatever the event, handle_event on
\* an Asteroid, a Bullet or a Debris returns no entity and leaves its body,
\* its wrap mode and its kind as they were.
OnlyPlayersReact ==
    [][\A event \in KeyEvents :
         (ent.kind.tag \in {"Asteroid", "Bullet", "Debris"} /\ KeyEvent(event))
             => /\ out'.new_entities = << >>
                /\ ent'.body = ent.body
                /\ ent'.wrap = ent.wrap
                /\ ent'.kind = ent.kind]_vars

\* an asteroid has been given presses of the keys of the first ship
RockGivenKeys ==
    /\ ent.kind.tag = "Asteroid"
    /\ LastCall = "handle_event"
    /\ held = {"Space", "Up", "Left", "Right"}

----------------------------------------------------------------------------
(* Properties of the phases of the game loop *)

\* e, an entity of the collection, is the bullet handle_event made for a
\* firer of the collection v on this event, as it was made
SpawnedBy(e, v, event) ==
    \E t \in DOMAIN v :
        /\ handle_event(v[t], event).new_entities # << >>
        /\ Labelled(e, 0, 0) = handle_event(v[t], event).new_entities[1]

\* the entities of v that spawn on this event
Spawners(v, event) ==
    {t \in DOMAIN v : handle_event(v[t], event).new_entities # << >>}

\* C14: an event of the input phase is handled by every entity that was in
\* the collection before it was dispatched, each at its own index; what they
\* spawn is appended behind all of them, as it was made, and is new to the
\* run, so it has handled neither this event nor an earlier one of the tick.
SpawnOrdering ==
    [][\A event \in WorldEvents :
         DispatchEvent(event)
             => /\ Len(entities') = Len(entities)
                       + Cardinality(Spawners(entities, event))
                /\ \A k \in DOMAIN entities :
                       entities'[k] = handle_event(entities[k], event).entity
                /\ \A k \in (Len(entities) + 1)..Len(entities') :
                       /\ SpawnedBy(entities'[k], entities, event)
                       /\ entities'[k].id \notin Ids(entities) \cup DOMAIN made
                       /\ entities'[k].born = tick]_vars

\* two events of one input phase have each spawned a bullet, and the first
\* bullet was in the collection when the second event was dispatched
TwoBulletsAppended ==
    /\ pc = "input"
    /\ polled = 2
    /\ Len(entities) = Len(Roster) + 2
    /\ Ids(SubSeq(entities, 1, Len(Roster))) = Ids(Roster)
    /\ entities[Len(Roster) + 1].kind.tag = "Bullet"
    /\ entities[Len(Roster) + 2].kind.tag = "Bullet"
    /\ entities[Len(Roster) + 1].id < entities[Len(Roster) + 2].id

----------------------------------------------------------------------------
(* Properties of the fast-negative check *)

\* the closed bounding boxes of the two triangles have a common point, and
\* all their common points lie on a side of each
BoxesTouch(s, o) ==
    LET a == Extent(s)
        b == Extent(o)
    IN  /\ a.min_x <= b.max_x /\ b.min_x <= a.max_x
        /\ a.min_y <= b.max_y /\ b.min_y <= a.max_y
        /\ \/ a.max_x = b.min_x
           \/ b.max_x = a.min_x
           \/ a.max_y = b.min_y
           \/ b.max_y = a.min_y

\* C15: the bounding-box rejection never skips a pair of triangles that
\* have a common point, whether or not a triangle has collapsed to a
\* segment or a point, and does not skip a pair whose boxes only touch on
\* a side or at a corner.
BroadPhaseSound ==
    LastCall = "fast_negative"
        => /\ TrianglesMeet(ent, other) => ~out.skipped
           /\ BoxesTouch(ent, other) => ~out.skipped

\* a triangle collapsed to a segment and a triangle with an interior meet
\* in one corner, where their boxes touch, and the pair was not skipped
CornerTouchKept ==
    /\ LastCall = "fast_negative"
    /\ Orient(ent[1], ent[2], ent[3]) = 0
    /\ Orient(other[1], other[2], other[3]) # 0
    /\ TrianglesMeet(ent, other)
    /\ Extent(ent).min_x = Extent(other).max_x
    /\ Extent(ent).min_y = Extent(other).max_y
    /\ ~out.skipped

----------------------------------------------------------------------------
(* Properties of asteroid_verts and new_asteroid *)

\* C16: asteroid_verts called with fewer than 3 vertices and new_asteroid
\* called with size 0 panic: the call returns no vertex list and no
\* entity, and nothing is added to the collection.
FailFast ==
    /\ [](LastCall = "asteroid_verts" /\ out.arg < 3
             => out.returned = Panic /\ pc = "panic")
    /\ [](LastCall = "new_asteroid" /\ out.arg = 0
             => out.returned = Panic /\ pc = "panic")
    /\ [][(\/ \E vert_count \in VertCounts :
                 vert_count < 3 /\ MakeVerts(vert_count)
           \/ MakeAsteroid(0))
              => entities' = entities]_vars

\* an asteroid was made and added, and the next call, new_asteroid with
\* size 0, has panicked
PanickedOnSizeZero ==
    /\ pc = "panic"
    /\ LastCall = "new_asteroid"
    /\ out.arg = 0
    /\ Len(entities) = 1
    /\ entities[1].kind.tag = "Asteroid"

\* the ttl of the entity has not run out
Unspent(e) == ~Spent(e)

\* C19: the step phase steps every entity that is in the collection when
\* it begins, the bullets spawned by the input phase of the same tick
\* among them, exactly once; it removes exactly the Bullet and Debris
\* entities whose ttl was 0 before the step; the others stay, in the order
\* they had; and an entity spawned by the collision phase is not stepped
\* before the next tick.
StepPhaseLaw ==
    /\ [][StepPhase
            => /\ Ids(entities) \ Ids(entities')
                      = {entities[t].id : t \in {u \in DOMAIN entities :
                                                    Spent(entities[u])}}
               /\ Len(entities') = Len(SelectSeq(entities, Unspent))
               /\ \A k \in DOMAIN entities' :
                      entities'[k] =
                          step(SelectSeq(entities, Unspent)[k], WindowBounds).entity]_vars
    /\ [](\A t \in DOMAIN entities :
             entities[t].kind.tag = "Debris" /\ entities[t].born = tick
                 => entities[t].kind.ttl = DebrisTtl)
    /\ [](\A t \in DOMAIN entities :
             entities[t].kind.tag = "Bullet" /\ entities[t].born = tick
                 => entities[t].kind.ttl
                        = IF pc \in {"scan", "publish"} THEN BulletTtl - 1
                          ELSE BulletTtl)

\* the step phase has just removed a bullet whose ttl had run out and kept
\* the ships and an asteroid, each where it was
SpentBulletDropped ==
    /\ pc = "scan"
    /\ compared = {}
    /\ i = 0
    /\ \E id \in DOMAIN expired : expired[id] = tick /\ made[id].tag = "Bullet"
    /\ Len(entities) >= 3
    /\ entities[1].id = 1
    /\ entities[2].id = 2
    /\ entities[3].kind.tag = "Asteroid"

\* the entity of the collection v that has this id
WithId(v, id) == v[CHOOSE t \in DOMAIN v : v[t].id = id]

\* C20: the resolution of a Bullet x Asteroid collision found at (i, j),
\* j < i, removes the two entities at i and at j and no other, whichever
\* of the two is the bullet; every other entity is in the collection
\* afterwards as it was, at the same index or at another.
PairRemoved ==
    [][(ScanBulletAsteroid \/ ScanAsteroidBullet)
         => /\ j < i
            /\ pc' # "panic"
            /\ Ids(entities) \ Ids(entities') = {Ei.id, Ej.id}
            /\ \A id \in Ids(entities) \ {Ei.id, Ej.id} :
                   WithId(entities', id) = WithId(entities, id)]_vars

\* a bullet and an asteroid have been removed, and a second bullet that
\* was last in the collection now stands where the asteroid was
SurvivorMoved ==
    /\ pc = "scan"
    /\ Cardinality(hits) = 2
    /\ \E t \in DOMAIN entities :
           /\ entities[t].kind.tag = "Bullet"
           /\ entities[t].born = tick
           /\ t <= Len(Roster)
    /\ \E t \in DOMAIN entities : entities[t].kind.tag = "Debris"

----------------------------------------------------------------------------
(* Properties of the collision scan on any list *)

\* v holds the entity e, as it is
Holds(v, e) == \E t \in DOMAIN v : v[t] = e

\* C21: a collision found between a Player and an Asteroid, a Bullet or
\* another Player, with the Player at either index, removes no entity,
\* adds none and changes none; so the scan never removes or changes a
\* Player, and the bullet or asteroid that met it is still there.
PlayerCollisionsInert ==
    [][/\ ScanPlayer => entities' = entities
       /\ \A t \in DOMAIN entities :
              entities[t].kind.tag = "Player" => Holds(entities', entities[t])]_vars

\* the scan has tested a bullet at the higher index against a ship, and a
\* ship at the higher index against an asteroid, and the list is as it was
ShipsTested ==
    /\ pc = "scan"
    /\ Len(entities) = 3
    /\ entities[1].kind.tag = "Asteroid"
    /\ entities[2].kind.tag = "Player"
    /\ entities[3].kind.tag = "Bullet"
    /\ compared = {{1, 2}, {1, 3}, {2, 3}}
    /\ Ids(entities) = startIds
    /\ hits = {}

\* a step of the scan that resolves a Bullet x Asteroid collision
Resolution == ScanBulletAsteroid \/ ScanAsteroidBullet

\* C22: whatever the list and whatever collision returns, the scan never
\* indexes entities out of bounds, in entities[i], entities[j] or
\* swap_remove, and size * 4 - 2 never underflows, so it never panics;
\* a resolution removes 2 entities and appends at least 2, so the list is
\* no shorter after it than before and i and j are still indices of it.
IndexSafety ==
    /\ [](pc # "panic")
    /\ [](pc = "scan" => j <= i /\ i <= Len(entities))
    /\ [](\A t \in DOMAIN entities :
             entities[t].kind.tag = "Asteroid"
                 => entities[t].kind.size * 4 - 2 >= 0)
    /\ [][Resolution
            => /\ Len(entities') - (Len(entities) - 2) >= 2
               /\ Len(entities') >= Len(entities)
               /\ j < Len(entities')
               /\ i < Len(entities')]_vars

\* a bullet that was last in a list of two has hit the smallest asteroid:
\* both are gone, two debris stand in their places and i is still an index
SmallestRockHit ==
    /\ pc = "scan"
    /\ Cardinality(startIds) = 2
    /\ hits = startIds
    /\ Len(entities) = 2
    /\ i = 1
    /\ \A t \in DOMAIN entities : entities[t].kind.tag = "Debris"

\* the bullets that were in the list when the scan began
StartBullets == {id \in startIds : made[id].tag = "Bullet"}

\* the bullets and the asteroids that resolutions have removed
BulletsHit == {id \in hits : made[id].tag = "Bullet"}

AsteroidsHit == {id \in hits : made[id].tag = "Asteroid"}

\* C23: the scan of any list ends, although the resolutions append
\* asteroids and debris to the list being scanned and the new asteroids
\* are scanned in the same phase; each resolution takes one bullet that
\* was there when the scan began and one asteroid, neither of which has
\* been in a resolution before, so there are no more resolutions than
\* there were bullets at the start.
ScanTerminates ==
    /\ <>(pc = "publish")
    /\ [](/\ hits = BulletsHit \cup AsteroidsHit
          /\ Cardinality(BulletsHit) = Cardinality(AsteroidsHit)
          /\ BulletsHit \subseteq StartBullets)
    /\ [][Resolution
            => /\ {Ei.id, Ej.id} \cap hits = {}
               /\ hits' = hits \cup {Ei.id, Ej.id}
               /\ Cardinality(BulletsHit') = Cardinality(BulletsHit) + 1]_vars

\* the scan has ended after two resolutions, the second on an asteroid
\* that the first had appended
ChildHitInSamePhase ==
    /\ pc = "publish"
    /\ Cardinality(BulletsHit) = 2
    /\ AsteroidsHit \ startIds # {}

Asteroids(v) == {t \in DOMAIN v : v[t].kind.tag = "Asteroid"}

RECURSIVE WeightFrom(_, _)
WeightFrom(v, t) ==
    IF t > Len(v) THEN 0
    ELSE (IF v[t].kind.tag = "Asteroid" THEN Pow2(v[t].kind.size) - 1 ELSE 0)
         + WeightFrom(v, t + 1)

\* W: the sum of 2^size - 1 over the asteroids of the list
Weight(v) == WeightFrom(v, 1)

\* the Bullet x Asteroid resolutions of the run so far
Resolutions == Cardinality(hits) \div 2

MadeAsteroids(m) == {id \in DOMAIN m : m[id].tag = "Asteroid"}

\* W and the counts it bounds, for a W that starts at first
WeightBounds(first) ==
    /\ Weight(entities) + Resolutions = first
    /\ Cardinality(Asteroids(entities)) <= Weight(entities)
    /\ Cardinality(Asteroids(entities)) <= first
    /\ Resolutions <= first

\* W over one step: only a resolution changes it or makes asteroids
WeightSteps ==
    /\ Weight(entities') <= Weight(entities)
    /\ Weight(entities') # Weight(entities) => Resolution
    /\ MadeAsteroids(made') # MadeAsteroids(made) => Resolution
    /\ Resolution => Weight(entities') = Weight(entities) - 1

\* C24, as it is stated: from the roster of main (asteroids of sizes 3, 2, 1)
\* W starts at 7, never increases and drops by exactly 1 at each Bullet x
\* Asteroid resolution; only the roster and the splits make asteroids; there
\* are never more than 7 asteroids and never more than 7 resolutions
PopulationBoundOfSeven == [](WeightBounds(7)) /\ [][WeightSteps]_vars

\* C24, with the W of the roster: from the roster of main (asteroids of sizes
\* 3, 2, 1) W starts at 7 + 3 + 1 = 11, never increases and drops by exactly
\* 1 at each Bullet x Asteroid resolution; only the roster and the splits
\* make asteroids; there are never more asteroids than W, and never more
\* resolutions than the 11 of the start
PopulationBound ==
    /\ [](Weight(Roster) = 11 /\ WeightBounds(Weight(Roster)))
    /\ [][WeightSteps]_vars

\* both bullets of one tick hit: the rock of size 3, then one of its children
TwoRocksSplit ==
    /\ Resolutions = 2
    /\ Weight(entities) = 9
    /\ Cardinality(Asteroids(entities)) = 5
Passive(body) ==
    /\ ~body.has_drag
    /\ ~body.accelerating
    /\ ~body.turning_left
    /\ ~body.turning_right

\* the entities of the list that are not ships, without their labels, each
\* placed in the window with each of the velocities
PlacedOthers ==
    {[entities[t] EXCEPT !.id = 0, !.born = 0,
                         !.body.position = << L(300), L(300) >>,
                         !.body.velocity = v] :
        t \in {u \in DOMAIN entities : entities[u].kind.tag # "Player"},
        v \in StepVelocities}

\* step leaves the velocity and the rotation of e as they are
StepKeeps(e) ==
    LET stepped == step(e, WindowBounds).entity.body
    IN  /\ stepped.velocity = e.body.velocity
        /\ stepped.rotation = e.body.rotation

\* no step of the program changes the body of an entity that is not a ship
OthersKept ==
    \A t \in DOMAIN entities : \A u \in DOMAIN entities' :
        (entities[t].kind.tag # "Player" /\ entities'[u].id = entities[t].id)
            => entities'[u].body = entities[t].body

\* C25: in every reachable state every Asteroid, Bullet and Debris has
\* has_drag, accelerating, turning_left and turning_right all false; when
\* the entities are about to be stepped, step applied to it, whatever
\* velocity it has, leaves its velocity and its rotation as they are; and
\* from its creation to its removal no step of the program changes its
\* rotation or its flags
PassiveBodies ==
    /\ [](\A t \in DOMAIN entities :
             entities[t].kind.tag # "Player" => Passive(entities[t].body))
    /\ [](pc = "step" => \A e \in PlacedOthers : StepKeeps(e))
    /\ [][OthersKept]_vars

\* a bullet fired by a ship that had turned, after the first step of the
\* bullet, with a ship whose rotation the steps have changed
BulletKeepsHeading ==
    \E t \in DOMAIN entities : \E u \in DOMAIN entities :
        /\ entities[t].kind.tag = "Bullet"
        /\ entities[t].kind.ttl < BulletTtl
        /\ entities[t].body.rotation # 0
        /\ entities[u].kind.tag = "Player"
        /\ entities[u].body.rotation # 0
====
